---- MODULE Spec2Model ----
(***************************************************************************)
(* A model of the Notion adapter of the task app (src/notion_wrapper.py)   *)
(* and of the calls its Streamlit front end makes (src/main.py).           *)
(*                                                                         *)
(* Representation of Python values:                                        *)
(*   str        a tuple of one-character strings, "" is <<>>;              *)
(*              a character outside ASCII is written as its code point,    *)
(*              "U+540D", and counts as one character                      *)
(*   None       the tuple <<"None">>, whose only element is no character,  *)
(*              so that None differs from every str, the empty one too     *)
(*   date       the tuple <<year, month, day>>                             *)
(*   dict       a function from its keys to its values                     *)
(*   list       a sequence                                                 *)
(***************************************************************************)
EXTENDS Integers, Sequences, FiniteSets, TLC

VARIABLES
    config,    \* the configuration: the Streamlit secrets and the environment
    db,        \* the task collection's metadata: its "properties", in order
    wrapper,   \* the NotionWrapper object: token, database_id, project_db_id
    op,        \* the operation the current script run has performed, or "idle"
    args,      \* the arguments of that call
    schema,    \* the schema _fetch_db_schema returned in that call
    warnings,  \* the st.warning / st.error messages that call surfaced
    created,   \* the properties handed to client.pages.create, at most one
    calls,     \* the outbound calls that call made, in order
    ret,       \* what the call returned: None, a str, or <<v>> for any other v
    raised     \* TRUE when the call raised to its caller

vars == <<config, db, wrapper, op, args, schema, warnings, created, calls, ret, raised>>

(***************************************************************************)
(* Bounds of the model.                                                    *)
(***************************************************************************)
MaxProps == 3      \* fields in the collection's metadata
MaxRecords == 2    \* records in one query result

(***************************************************************************)
(* Python str and None.                                                    *)
(***************************************************************************)
None == <<"None">>

Truthy(v) == v # None /\ v # <<>>

Rep(c, n) == [i \in 1..n |-> c]

SetMin(S) == CHOOSE m \in S : \A k \in S : m <= k

SetMax(S) == CHOOSE m \in S : \A k \in S : m >= k

\* sub in s
Contains(s, sub) ==
    \E i \in 1..(Len(s) - Len(sub) + 1) : SubSeq(s, i, i + Len(sub) - 1) = sub

UpperCase == <<"A","B","C","D","E","F","G","H","I","J","K","L","M",
               "N","O","P","Q","R","S","T","U","V","W","X","Y","Z">>

LowerCase == <<"a","b","c","d","e","f","g","h","i","j","k","l","m",
               "n","o","p","q","r","s","t","u","v","w","x","y","z">>

\* str.lower()
Lower(s) ==
    [i \in 1..Len(s) |->
        IF \E k \in 1..Len(UpperCase) : UpperCase[k] = s[i]
        THEN LowerCase[CHOOSE k \in 1..Len(UpperCase) : UpperCase[k] = s[i]]
        ELSE s[i]]

\* s.split(sep)[0]
SplitFirst(s, sep) ==
    LET at == {i \in 1..Len(s) : s[i] = sep}
    IN  IF at = {} THEN s ELSE SubSeq(s, 1, SetMin(at) - 1)

\* s.split(sep)[-1]
SplitLast(s, sep) ==
    LET at == {i \in 1..Len(s) : s[i] = sep}
    IN  IF at = {} THEN s ELSE SubSeq(s, SetMax(at) + 1, Len(s))

(***************************************************************************)
(* _sanitize_id: the two regular expressions and the function.             *)
(***************************************************************************)
HexChars == {"a","b","c","d","e","f","0","1","2","3","4","5","6","7","8","9"}

HexIdLen == 32

UuidGroups == <<8, 4, 4, 4, 12>>

\* [a-f0-9]{n} matches s at position i
IsHexRun(s, i, n) ==
    /\ i + n - 1 <= Len(s)
    /\ \A k \in i..(i + n - 1) : s[k] \in HexChars

\* re.search(r'([a-f0-9]{32})', s): the leftmost match, or None
SearchHex32(s) ==
    LET hits == {i \in 1..Len(s) : IsHexRun(s, i, HexIdLen)}
    IN  IF hits = {} THEN None
        ELSE SubSeq(s, SetMin(hits), SetMin(hits) + HexIdLen - 1)

\* the offset of the g-th group of the UUID pattern from the match's start
RECURSIVE UuidOffset(_)
UuidOffset(g) == IF g = 1 THEN 0 ELSE UuidOffset(g - 1) + UuidGroups[g - 1] + 1

UuidLen == UuidOffset(Len(UuidGroups)) + UuidGroups[Len(UuidGroups)]

\* [a-f0-9]{8}-[a-f0-9]{4}-[a-f0-9]{4}-[a-f0-9]{4}-[a-f0-9]{12} matches s at i
IsUuidAt(s, i) ==
    /\ i + UuidLen - 1 <= Len(s)
    /\ \A g \in 1..Len(UuidGroups) :
          /\ IsHexRun(s, i + UuidOffset(g), UuidGroups[g])
          /\ g < Len(UuidGroups) => s[i + UuidOffset(g) + UuidGroups[g]] = "-"

\* re.search of the UUID pattern: the leftmost match, or None
SearchUuid(s) ==
    LET hits == {i \in 1..Len(s) : IsUuidAt(s, i)}
    IN  IF hits = {} THEN None
        ELSE SubSeq(s, SetMin(hits), SetMin(hits) + UuidLen - 1)

_sanitize_id(id_str) ==
    IF ~Truthy(id_str) THEN None
    ELSE LET noQuery == SplitFirst(id_str, "?")
             segment == IF Contains(noQuery, <<"/">>)
                        THEN SplitLast(noQuery, "/") ELSE noQuery
         IN  IF SearchHex32(segment) # None THEN SearchHex32(segment)
             ELSE IF SearchUuid(segment) # None THEN SearchUuid(segment)
             ELSE segment

(***************************************************************************)
(* NotionWrapper.__init__.  A configuration is the Streamlit secrets and   *)
(* the process environment, each a dict from some of the three keys to a   *)
(* str.                                                                    *)
(***************************************************************************)
ConfigKeys == {"NOTION_TOKEN", "DATABASE_ID", "PROJECT_DB_ID"}

\* os.getenv(key)
Getenv(env, key) == IF key \in DOMAIN env THEN env[key] ELSE None

__init__(secrets, env) ==
    LET keyError == ~(ConfigKeys \subseteq DOMAIN secrets)
        token == IF keyError THEN Getenv(env, "NOTION_TOKEN")
                 ELSE secrets["NOTION_TOKEN"]
        database_id == IF keyError THEN Getenv(env, "DATABASE_ID")
                       ELSE secrets["DATABASE_ID"]
        project_db_id == IF keyError THEN Getenv(env, "PROJECT_DB_ID")
                         ELSE secrets["PROJECT_DB_ID"]
        complete == Truthy(token) /\ Truthy(database_id) /\ Truthy(project_db_id)
    IN  [token         |-> token,
         database_id   |-> IF complete THEN _sanitize_id(database_id)
                           ELSE database_id,
         project_db_id |-> IF complete THEN _sanitize_id(project_db_id)
                           ELSE project_db_id,
         has_client    |-> Truthy(token)]

\* lines 22-25: a missing value is passed over with "pass"; the KeyError of
\* the secrets is caught and nothing else in __init__ raises
InitRaises(secrets, env) == FALSE

(***************************************************************************)
(* The strings of the model.                                               *)
(***************************************************************************)
Hex32A == Rep("a", 8) \o Rep("0", 8) \o Rep("f", 8) \o Rep("9", 8)

Hex32B == Rep("1", 16) \o Rep("b", 16)

UuidA == Rep("a", 8) \o <<"-">> \o Rep("0", 4) \o <<"-">> \o Rep("4", 4)
         \o <<"-">> \o Rep("b", 4) \o <<"-">> \o Rep("c", 12)

UrlPrefix == <<"h","t","t","p","s",":","/","/","n",".","s","o","/","w","s","/">>

QuerySuffix == <<"?","v","=","1">>

SecretToken == <<"s","e","c","r","e","t">>

\* secrets.toml as main.py expects it: the three values, ids pasted as URLs
FullSecrets ==
    [k \in ConfigKeys |->
        IF k = "NOTION_TOKEN" THEN SecretToken
        ELSE IF k = "DATABASE_ID" THEN UrlPrefix \o Hex32A \o QuerySuffix
        ELSE <<"P","r","o","j","-">> \o Hex32B]

EmptyDict == [k \in {} |-> None]

FullConfig == [secrets |-> FullSecrets, env |-> EmptyDict]

\* the default property names of _fetch_db_schema; the first two are the
\* Japanese words for "name" and "date", two characters each
N_Namae == <<"U+540D", "U+524D">>

N_Hizuke == <<"U+65E5", "U+4ED8">>

N_Project == <<"P","r","o","j","e","c","t">>

N_Name == <<"N","a","m","e">>

N_When == <<"W","h","e","n">>

N_Owner == <<"O","w","n","e","r">>

N_MyProjects == <<"M","y"," ","P","R","O","J","E","C","T","S">>

N_Status == <<"S","t","a","t","u","s">>

N_X == <<"X">>

N_Y == <<"Y">>

(***************************************************************************)
(* The collection's metadata.  An entry of "properties" is a name and the  *)
(* shape of its value: a dict whose "type" is title, date, relation or     *)
(* status, a dict with no "type" key ("NoTypeKey"), or a value that is no  *)
(* dict at all, such as null ("NotADict").                                 *)
(***************************************************************************)
FieldPool ==
    { [name |-> N_Name,       kind |-> "title"],
      [name |-> N_Hizuke,     kind |-> "title"],
      [name |-> N_When,       kind |-> "date"],
      [name |-> N_Project,    kind |-> "date"],
      [name |-> N_Owner,      kind |-> "relation"],
      [name |-> N_MyProjects, kind |-> "relation"],
      [name |-> N_Project,    kind |-> "relation"],
      [name |-> N_Status,     kind |-> "status"],
      [name |-> N_X,          kind |-> "NoTypeKey"],
      [name |-> N_Y,          kind |-> "NotADict"] }

\* the key of the collection's one title field occurs once; so does every key
Collections ==
    { p \in UNION { [1..n -> FieldPool] : n \in 0..MaxProps } :
        /\ \A i, j \in 1..Len(p) : p[i].name = p[j].name => i = j
        /\ Cardinality({i \in 1..Len(p) : p[i].kind = "title"}) <= 1 }

WellShaped(props) ==
    \A i \in 1..Len(props) : props[i].kind \notin {"NoTypeKey", "NotADict"}

\* [k for k, v in properties.items() if v["type"] == t]
RECURSIVE NamesOfType(_, _)
NamesOfType(props, t) ==
    IF props = <<>> THEN <<>>
    ELSE (IF Head(props).kind = t THEN <<Head(props).name>> ELSE <<>>)
         \o NamesOfType(Tail(props), t)

(***************************************************************************)
(* _fetch_db_schema.  The outcome of requests.get is a transport error or  *)
(* a response with a status code; a 200 response carries the metadata.     *)
(***************************************************************************)
Responses ==
    { [error |-> TRUE,  status_code |-> 0],
      [error |-> FALSE, status_code |-> 200],
      [error |-> FALSE, status_code |-> 404] }

DefaultSchema == [title |-> N_Namae, date |-> N_Hizuke, relation |-> N_Project]

\* lines 96-110: what the first loop does with a relation-typed field
RelationStep(sch, name) ==
    IF name = N_Project \/ sch.relation = N_Project
    THEN [sch EXCEPT !.relation = name]
    ELSE IF sch.relation # N_Project
         THEN [sch EXCEPT !.relation = name]
         ELSE sch

\* lines 86-110: the first loop, from entry i on; prop.get("type") raises on
\* a value that is no dict, and the loop stops there with what it has set
RECURSIVE FirstScan(_, _, _)
FirstScan(props, i, sch) ==
    IF i > Len(props) THEN [schema |-> sch, raised |-> FALSE]
    ELSE LET name == props[i].name
             kind == props[i].kind
         IN  IF kind = "NotADict" THEN [schema |-> sch, raised |-> TRUE]
             ELSE IF kind = "title"
                  THEN FirstScan(props, i + 1, [sch EXCEPT !.title = name])
             ELSE IF kind = "date"
                  THEN FirstScan(props, i + 1, [sch EXCEPT !.date = name])
             ELSE IF kind = "relation"
                  THEN FirstScan(props, i + 1, RelationStep(sch, name))
             ELSE FirstScan(props, i + 1, sch)

\* line 121: next((r for r in relations if "project" in r.lower()), None)
ProjRel(relations) ==
    LET hits == {i \in 1..Len(relations) :
                    Contains(Lower(relations[i]), Lower(N_Project))}
    IN  IF hits = {} THEN None ELSE relations[SetMin(hits)]

\* the re-scan with the assignments of lines 118-125 left out: the roles stay
\* as the first loop set them, the last field of each type
Rescan_omitted(props, sch) == [schema |-> sch, raised |-> ~WellShaped(props)]

\* lines 114-125: the re-scan; v["type"] raises on an entry with no type
Rescan(props, sch) ==
    IF ~WellShaped(props) THEN [schema |-> sch, raised |-> TRUE]
    ELSE LET titles == NamesOfType(props, "title")
             dates == NamesOfType(props, "date")
             relations == NamesOfType(props, "relation")
             s1 == IF titles # <<>> THEN [sch EXCEPT !.title = titles[1]] ELSE sch
             s2 == IF dates # <<>> THEN [s1 EXCEPT !.date = dates[1]] ELSE s1
             s3 == IF ProjRel(relations) # None
                   THEN [s2 EXCEPT !.relation = ProjRel(relations)]
                   ELSE IF relations # <<>>
                        THEN [s2 EXCEPT !.relation = relations[1]]
                        ELSE s2
         IN  [schema |-> s3, raised |-> FALSE]

\* lines 80-128: the body of the try block
FetchBody(props, resp) ==
    IF resp.error
    THEN [schema |-> DefaultSchema, raised |-> TRUE, warnings |-> <<>>]
    ELSE IF resp.status_code = 200
    THEN LET first == FirstScan(props, 1, DefaultSchema)
             second == Rescan(props, first.schema)
         IN  IF first.raised
             THEN [schema |-> first.schema, raised |-> TRUE, warnings |-> <<>>]
             ELSE [schema |-> second.schema, raised |-> second.raised,
                   warnings |-> <<>>]
    ELSE [schema |-> DefaultSchema, raised |-> FALSE,
          warnings |-> <<"Could not fetch DB schema">>]

\* no except clause: the exception leaves _fetch_db_schema
FetchExcept_uncaught(body) == body

\* lines 129-130: except Exception as e: st.warning(...)
FetchExcept(body) ==
    IF body.raised
    THEN [schema |-> body.schema, raised |-> FALSE,
          warnings |-> Append(body.warnings, "Error determining DB schema")]
    ELSE body

_fetch_db_schema(props, resp) == FetchExcept(FetchBody(props, resp))

(***************************************************************************)
(* add_task.                                                               *)
(***************************************************************************)
DigitChars == <<"0","1","2","3","4","5","6","7","8","9">>

RECURSIVE Pow10(_)
Pow10(k) == IF k = 0 THEN 1 ELSE 10 * Pow10(k - 1)

\* "%0wd" % n
ZeroPad(n, w) == [i \in 1..w |-> DigitChars[((n \div Pow10(w - i)) % 10) + 1]]

\* str(n)
RECURSIVE Decimal(_)
Decimal(n) ==
    IF n < 10 THEN <<DigitChars[n + 1]>>
    ELSE Decimal(n \div 10) \o <<DigitChars[(n % 10) + 1]>>

\* a date written without the leading zeros: 2023-1-1
isoformat_unpadded(date) ==
    Decimal(date[1]) \o <<"-">> \o Decimal(date[2]) \o <<"-">> \o Decimal(date[3])

\* datetime.date.isoformat(): "%04d-%02d-%02d" % (year, month, day)
isoformat(date) ==
    ZeroPad(date[1], 4) \o <<"-">> \o ZeroPad(date[2], 2) \o <<"-">>
    \o ZeroPad(date[3], 2)

\* d[k] = v
DictSet(d, k, v) == [x \in DOMAIN d \cup {k} |-> IF x = k THEN v ELSE d[x]]

\* lines 142-173: the properties of the page to create
BuildProperties(sch, name, date, project_id) ==
    LET prop_title == sch.title
        prop_date == sch.date
        prop_relation == sch.relation
        literal ==
            DictSet(DictSet(EmptyDict, prop_title,
                            [title |-> <<[text |-> [content |-> name]]>>]),
                    prop_relation,
                    [relation |-> <<[id |-> project_id]>>])
    IN  IF date # None
        THEN DictSet(literal, prop_date, [date |-> [start |-> isoformat(date)]])
        ELSE literal

(***************************************************************************)
(* The script run.  Streamlit runs main.py from the top on every           *)
(* interaction: the run builds the wrapper and then makes its calls.       *)
(***************************************************************************)
Init ==
    /\ db \in Collections
    /\ config = FullConfig
    /\ wrapper = __init__(config.secrets, config.env)
    /\ op = "idle"
    /\ args = <<>>
    /\ schema = DefaultSchema
    /\ warnings = <<>>
    /\ created = <<>>
    /\ calls = <<>>
    /\ ret = None
    /\ raised = InitRaises(config.secrets, config.env)

\* main.py line 98, on the next run of the script
Rerun ==
    /\ op # "idle"
    /\ wrapper' = __init__(config.secrets, config.env)
    /\ op' = "idle"
    /\ args' = <<>>
    /\ schema' = DefaultSchema
    /\ warnings' = <<>>
    /\ created' = <<>>
    /\ calls' = <<>>
    /\ ret' = None
    /\ raised' = InitRaises(config.secrets, config.env)
    /\ UNCHANGED <<config, db>>

FetchDbSchema(resp) ==
    /\ op = "idle"
    /\ LET r == _fetch_db_schema(db, resp)
       IN  /\ schema' = r.schema
           /\ warnings' = r.warnings
           /\ raised' = r.raised
    /\ op' = "_fetch_db_schema"
    /\ args' = [database_id |-> wrapper.database_id, resp |-> resp]
    /\ calls' = <<"requests.get">>
    /\ ret' = None
    /\ UNCHANGED <<config, db, wrapper, created>>

\* the arguments main.py passes: the form's task name, the date input's
\* date or None, and a project's page id or None
TaskNames == { <<"B","u","y"," ","m","i","l","k">>, <<"T">> }

Dates == { <<2023, 1, 1>>, <<2024, 12, 31>> }

PID1 == <<"p","1">>

PID2 == <<"p","2">>

AddTask(name, date, project_id, resp, createOk) ==
    /\ op = "idle"
    /\ LET r == _fetch_db_schema(db, resp)
           properties == BuildProperties(r.schema, name, date, project_id)
           called == ~r.raised /\ wrapper.has_client
           ok == called /\ createOk
       IN  /\ schema' = r.schema
           /\ raised' = r.raised
           /\ created' = IF called THEN <<properties>> ELSE <<>>
           /\ calls' = IF called THEN <<"requests.get", "client.pages.create">>
                       ELSE <<"requests.get">>
           /\ warnings' = IF ok \/ r.raised THEN r.warnings
                          ELSE Append(r.warnings, "Error adding task")
           /\ ret' = IF r.raised THEN None ELSE <<ok>>
    /\ op' = "add_task"
    /\ args' = [name |-> name, date |-> date, project_id |-> project_id,
                resp |-> resp, create_ok |-> createOk]
    /\ UNCHANGED <<config, db, wrapper>>

Next ==
    \/ Rerun
    \/ \E resp \in Responses : FetchDbSchema(resp)
    \/ \E name \in TaskNames, date \in Dates \cup {None},
          project_id \in {None, PID1}, resp \in Responses,
          createOk \in BOOLEAN :
            AddTask(name, date, project_id, resp, createOk)

Spec == Init /\ [][Next]_vars

(***************************************************************************)
(* _sanitize_id on its own: the strings a user may paste as an id.         *)
(***************************************************************************)
SanitizePrefixes ==
    { <<>>, UrlPrefix, <<"P","r","o","j","-">>, UrlPrefix \o <<"P","r","o","j","-">> }

SanitizeCores ==
    { <<>>, Hex32A, UuidA, <<"a","b","c">>,
      SubSeq(Hex32A, 1, HexIdLen - 1), Hex32B \o <<"f","f">> }

SanitizeSuffixes ==
    { <<>>, QuerySuffix, <<"/">>, <<"/">> \o QuerySuffix, <<"-","x">> }

SanitizeInputs ==
    {None} \cup { a \o b \o c : a \in SanitizePrefixes, b \in SanitizeCores,
                                c \in SanitizeSuffixes }

InitSanitize ==
    /\ db = <<>>
    /\ config = FullConfig
    /\ wrapper = __init__(config.secrets, config.env)
    /\ op = "idle"
    /\ args = <<>>
    /\ schema = DefaultSchema
    /\ warnings = <<>>
    /\ created = <<>>
    /\ calls = <<>>
    /\ ret = None
    /\ raised = InitRaises(config.secrets, config.env)

SanitizeId(id_str) ==
    /\ op = "idle"
    /\ op' = "_sanitize_id"
    /\ args' = [id_str |-> id_str]
    /\ ret' = _sanitize_id(id_str)
    /\ raised' = FALSE
    /\ UNCHANGED <<config, db, wrapper, schema, warnings, created, calls>>

NextSanitize ==
    \/ Rerun
    \/ \E id_str \in SanitizeInputs : SanitizeId(id_str)

SpecSanitize == InitSanitize /\ [][NextSanitize]_vars

(***************************************************************************)
(* The read path: _query_database and get_tasks.                           *)
(*                                                                         *)
(* A page of a query result holds a value for every field of the           *)
(* collection: its title is a list of rich-text runs, a text run           *)
(* {"text": {"content": ...}} or a run of another type with no "text" key; *)
(* its date is None (null) or the start of {"start": ...}; its relation is *)
(* a list of {"id": ...}.  Every field of one type holds the same value.   *)
(***************************************************************************)
Alpha == <<"A","l","p","h","a">>

UnknownProject == <<"U","n","k","n","o","w","n"," ","P","r","o","j","e","c","t">>

Dash == <<"-">>

TextRun(content) == [text |-> [content |-> content]]

MentionRun == [mention |-> [user |-> <<"u","1">>]]

PagePool ==
    { [title    |-> <<TextRun(<<"B","u","y"," ","m","i","l","k">>)>>,
       date     |-> <<"2","0","2","3","-","0","1","-","0","1">>,
       relation |-> <<[id |-> PID1]>>],
      [title    |-> <<TextRun(<<"T">>), TextRun(<<"2">>)>>,
       date     |-> None,
       relation |-> <<[id |-> PID2], [id |-> PID1]>>],
      [title    |-> <<>>,
       date     |-> None,
       relation |-> <<>>],
      [title    |-> <<MentionRun>>,
       date     |-> <<"2","0","2","4","-","1","2","-","3","1">>,
       relation |-> <<[id |-> PID1]>>] }

PageSeqs == UNION { [1..n -> PagePool] : n \in 0..MaxRecords }

\* the project_map argument: None, or a dict from page ids to names
ProjectMaps ==
    { [given |-> FALSE, map |-> EmptyDict],
      [given |-> TRUE,  map |-> EmptyDict],
      [given |-> TRUE,  map |-> [k \in {PID1} |-> Alpha]] }

\* what a query meets: whether the installed client offers databases.query,
\* whether the one path taken succeeds, and the pages it then returns
QueryOutcomes ==
    { [has_query |-> h, ok |-> TRUE, results |-> r] :
          h \in BOOLEAN, r \in PageSeqs }
    \cup { [has_query |-> h, ok |-> FALSE, results |-> <<>>] : h \in BOOLEAN }

\* lines 185-218; without a token the wrapper has no client attribute
_query_database(w, q) ==
    IF ~w.has_client
    THEN [raised |-> TRUE, results |-> <<>>, calls |-> <<>>]
    ELSE IF q.has_query
    THEN [raised |-> ~q.ok, results |-> q.results,
          calls |-> <<"client.databases.query">>]
    ELSE [raised |-> ~q.ok, results |-> q.results, calls |-> <<"requests.post">>]

\* props.get(name, {}) on a page of the collection with metadata meta
PropsGet(meta, page, name) ==
    LET hit == {i \in 1..Len(meta) : meta[i].name = name}
        kind == meta[CHOOSE i \in hit : TRUE].kind
    IN  IF hit = {} THEN EmptyDict
        ELSE IF kind = "title" THEN [title |-> page.title]
        ELSE IF kind = "date" THEN [date |-> page.date]
        ELSE IF kind = "relation" THEN [relation |-> page.relation]
        ELSE IF kind = "status" THEN [status |-> None]
        ELSE EmptyDict

\* lines 326-328
get_title(prop) ==
    LET res == IF "title" \in DOMAIN prop THEN prop.title ELSE <<>>
    IN  IF res = <<>> THEN [raised |-> FALSE, value |-> <<>>]
        ELSE IF "text" \in DOMAIN res[1]
        THEN [raised |-> FALSE, value |-> res[1].text.content]
        ELSE [raised |-> TRUE, value |-> <<>>]

\* lines 330-332
get_date(prop) ==
    LET res == IF "date" \in DOMAIN prop THEN prop.date ELSE None
    IN  IF res # None THEN res ELSE <<>>

\* get_relation_name reading the last id of the list
get_relation_name_last(prop, project_map) ==
    LET relation_list == IF "relation" \in DOMAIN prop THEN prop.relation ELSE <<>>
        p_id == relation_list[Len(relation_list)].id
    IN  IF relation_list = <<>> THEN Dash
        ELSE IF /\ project_map.given
                /\ DOMAIN project_map.map # {}
                /\ p_id \in DOMAIN project_map.map
        THEN project_map.map[p_id]
        ELSE UnknownProject

\* lines 334-343
get_relation_name(prop, project_map) ==
    LET relation_list == IF "relation" \in DOMAIN prop THEN prop.relation ELSE <<>>
        p_id == relation_list[1].id
    IN  IF relation_list = <<>> THEN Dash
        ELSE IF /\ project_map.given
                /\ DOMAIN project_map.map # {}
                /\ p_id \in DOMAIN project_map.map
        THEN project_map.map[p_id]
        ELSE UnknownProject

\* lines 321-351: the loop over response["results"]; an exception in a
\* helper leaves the loop
RECURSIVE ParseRows(_, _, _, _, _)
ParseRows(meta, sch, pages, project_map, data) ==
    IF pages = <<>> THEN [raised |-> FALSE, data |-> data]
    ELSE LET page == Head(pages)
             task == get_title(PropsGet(meta, page, sch.title))
             item == [Task    |-> task.value,
                      Date    |-> get_date(PropsGet(meta, page, sch.date)),
                      Project |-> get_relation_name(
                                      PropsGet(meta, page, sch.relation),
                                      project_map)]
         IN  IF task.raised THEN [raised |-> TRUE, data |-> data]
             ELSE ParseRows(meta, sch, Tail(pages), project_map,
                            Append(data, item))

\* pd.DataFrame: its columns and its rows
DataFrame(columns, rows) == [columns |-> columns, rows |-> rows]

\* lines 292-361
get_tasks(w, meta, resp, q, project_map) ==
    LET s == _fetch_db_schema(meta, resp)
        query == IF s.raised THEN [raised |-> TRUE, results |-> <<>>, calls |-> <<>>]
                 ELSE _query_database(w, q)
        parsed == IF query.raised THEN [raised |-> TRUE, data |-> <<>>]
                  ELSE ParseRows(meta, s.schema, query.results, project_map, <<>>)
    IN  [schema   |-> s.schema,
         warnings |-> s.warnings,
         calls    |-> <<"requests.get">> \o query.calls,
         raised   |-> FALSE,
         ret      |-> IF parsed.raised THEN DataFrame(<<>>, <<>>)
                      ELSE IF parsed.data = <<>>
                      THEN DataFrame(<<"Date", "Task", "Project">>, <<>>)
                      ELSE DataFrame(<<"Task", "Date", "Project">>, parsed.data)]

\* the collections of the read path
ReadPool ==
    { [name |-> N_Name,    kind |-> "title"],
      [name |-> N_When,    kind |-> "date"],
      [name |-> N_Owner,   kind |-> "relation"],
      [name |-> N_Project, kind |-> "relation"],
      [name |-> N_Project, kind |-> "date"] }

ReadCollections ==
    { p \in Collections : \A i \in 1..Len(p) : p[i] \in ReadPool }

InitRead ==
    /\ db \in ReadCollections
    /\ config = FullConfig
    /\ wrapper = __init__(config.secrets, config.env)
    /\ op = "idle"
    /\ args = <<>>
    /\ schema = DefaultSchema
    /\ warnings = <<>>
    /\ created = <<>>
    /\ calls = <<>>
    /\ ret = None
    /\ raised = InitRaises(config.secrets, config.env)

GetTasks(resp, q, project_map) ==
    /\ op = "idle"
    /\ LET r == get_tasks(wrapper, db, resp, q, project_map)
       IN  /\ schema' = r.schema
           /\ warnings' = r.warnings
           /\ calls' = r.calls
           /\ raised' = r.raised
           /\ ret' = <<r.ret>>
    /\ op' = "get_tasks"
    /\ args' = [project_map |-> project_map, resp |-> resp, query |-> q]
    /\ UNCHANGED <<config, db, wrapper, created>>

NextRead ==
    \/ Rerun
    \/ \E resp \in Responses, q \in QueryOutcomes, project_map \in ProjectMaps :
          GetTasks(resp, q, project_map)

SpecRead == InitRead /\ [][NextRead]_vars

(***************************************************************************)
(* get_projects.  The project collection has one title field, named        *)
(* title_key; a page of it is its id and the runs of its title.  A call    *)
(* makes up to three queries, and each may succeed or fail.                *)
(***************************************************************************)
N_Title == <<"T","i","t","l","e">>

Untitled == <<"U","n","t","i","t","l","e","d">>

Beta == <<"B","e","t","a">>

ProjectPagePool ==
    { [id |-> PID1, title |-> <<TextRun(Alpha)>>],
      [id |-> PID2, title |-> <<TextRun(Beta), TextRun(<<"2">>)>>],
      [id |-> PID2, title |-> <<>>],
      [id |-> PID2, title |-> <<MentionRun>>] }

ProjectPageSeqs == UNION { [1..n -> ProjectPagePool] : n \in 0..MaxRecords }

ProjectOutcomes ==
    { [has_query |-> h, oks |-> o, title_key |-> k, pages |-> ps] :
          h \in BOOLEAN, o \in [1..3 -> BOOLEAN],
          k \in {N_Namae, N_Name, N_Title}, ps \in ProjectPageSeqs }

\* lines 276-290; props.get(title_key) finds the title under its own name only
RECURSIVE _parse_projects(_, _, _, _)
_parse_projects(pages, page_title_key, title_key, projects) ==
    IF pages = <<>> THEN [raised |-> FALSE, projects |-> projects]
    ELSE LET page == Head(pages)
             found == title_key = page_title_key /\ page.title # <<>>
         IN  IF found /\ "text" \notin DOMAIN page.title[1]
             THEN [raised |-> TRUE, projects |-> projects]
             ELSE _parse_projects(Tail(pages), page_title_key, title_key,
                      Append(projects,
                             [id |-> page.id,
                              name |-> IF found THEN page.title[1].text.content
                                       ELSE Untitled]))

\* one query of get_projects and the parsing of its response under title_key
ProjectAttempt(w, out, i, title_key) ==
    LET query == _query_database(w, [has_query |-> out.has_query,
                                     ok |-> out.oks[i], results |-> out.pages])
        parsed == _parse_projects(query.results, out.title_key, title_key, <<>>)
    IN  [raised   |-> query.raised \/ parsed.raised,
         calls    |-> query.calls,
         projects |-> parsed.projects,
         empty    |-> ~query.raised /\ query.results = <<>>]

\* the final except clause left out: the exception leaves get_projects
ProjectsExcept_uncaught(attempts, last) ==
    [ret      |-> IF last.raised \/ last.empty THEN <<>> ELSE last.projects,
     raised   |-> last.raised,
     warnings |-> <<>>,
     calls    |-> attempts \o last.calls]

\* lines 251-274: the outcome of the third attempt, made after the calls
\* `attempts`; lines 272-274 catch whatever it raised
ProjectsExcept(attempts, last) ==
    [ret      |-> IF last.raised \/ last.empty THEN <<>> ELSE last.projects,
     raised   |-> FALSE,
     warnings |-> IF last.raised THEN <<"Error fetching projects">> ELSE <<>>,
     calls    |-> attempts \o last.calls]

\* lines 220-274
get_projects(w, out) ==
    LET first == ProjectAttempt(w, out, 1, N_Namae)
        second == ProjectAttempt(w, out, 2, N_Name)
        \* lines 263-265: the key whose value has id "title" is the title's
        third == ProjectAttempt(w, out, 3, out.title_key)
    IN  IF ~Truthy(w.project_db_id)
        THEN [ret |-> <<>>, raised |-> FALSE,
              warnings |-> <<"PROJECT_DB_ID is not set">>, calls |-> <<>>]
        ELSE IF ~first.raised
        THEN [ret |-> first.projects, raised |-> FALSE, warnings |-> <<>>,
              calls |-> first.calls]
        ELSE IF ~second.raised
        THEN [ret |-> second.projects, raised |-> FALSE, warnings |-> <<>>,
              calls |-> first.calls \o second.calls]
        ELSE ProjectsExcept(first.calls \o second.calls, third)

GetProjects(out) ==
    /\ op = "idle"
    /\ LET r == get_projects(wrapper, out)
       IN  /\ warnings' = r.warnings
           /\ calls' = r.calls
           /\ raised' = r.raised
           /\ ret' = IF r.raised THEN None ELSE <<r.ret>>
    /\ op' = "get_projects"
    /\ args' = [out |-> out]
    /\ UNCHANGED <<config, db, wrapper, schema, created>>

(***************************************************************************)
(* _query_database called on its own, and the status change of the Daily   *)
(* Tasks view.                                                             *)
(***************************************************************************)
QueryDatabase(q) ==
    /\ op = "idle"
    /\ LET r == _query_database(wrapper, q)
       IN  /\ calls' = r.calls
           /\ raised' = r.raised
           /\ ret' = IF r.raised THEN None ELSE <<r.results>>
    /\ op' = "_query_database"
    /\ args' = [query |-> q]
    /\ UNCHANGED <<config, db, wrapper, schema, warnings, created>>

\* the methods class NotionWrapper defines
WrapperMethods ==
    { "__init__", "_sanitize_id", "_fetch_db_schema", "add_task",
      "_query_database", "get_projects", "_parse_projects", "get_tasks" }

Done == <<"D","o","n","e">>

NotStarted == <<"N","o","t"," ","s","t","a","r","t","e","d">>

\* wrapper.update_task_status(row['id'], new_status): the attribute lookup
\* raises AttributeError when the class has no such method
UpdateTaskStatus(record_id, new_status) ==
    /\ op = "idle"
    /\ raised' = ("update_task_status" \notin WrapperMethods)
    /\ ret' = None
    /\ op' = "update_task_status"
    /\ args' = [record_id |-> record_id, new_status |-> new_status]
    /\ UNCHANGED <<config, db, wrapper, schema, warnings, created, calls>>

(***************************************************************************)
(* The adapter under every configuration: secrets.toml complete, or absent *)
(* with any part of the three values in the environment, or holding an     *)
(* empty token.                                                            *)
(***************************************************************************)
Configs ==
    { FullConfig,
      [secrets |-> [FullSecrets EXCEPT !["NOTION_TOKEN"] = <<>>],
       env |-> EmptyDict] }
    \cup { [secrets |-> EmptyDict, env |-> [k \in K |-> FullSecrets[k]]] :
              K \in SUBSET ConfigKeys }

\* the collections of these runs: at most one field
AdapterCollections == { p \in ReadCollections : Len(p) <= 1 }

InitAdapter ==
    /\ config \in Configs
    /\ db \in AdapterCollections
    /\ wrapper = __init__(config.secrets, config.env)
    /\ op = "idle"
    /\ args = <<>>
    /\ schema = DefaultSchema
    /\ warnings = <<>>
    /\ created = <<>>
    /\ calls = <<>>
    /\ ret = None
    /\ raised = InitRaises(config.secrets, config.env)

NextAdapter ==
    \/ Rerun
    \/ \E name \in TaskNames, date \in Dates \cup {None},
          project_id \in {None, PID1}, resp \in Responses,
          createOk \in BOOLEAN :
            AddTask(name, date, project_id, resp, createOk)
    \/ \E resp \in Responses, q \in QueryOutcomes, project_map \in ProjectMaps :
          GetTasks(resp, q, project_map)
    \/ \E out \in ProjectOutcomes : GetProjects(out)
    \/ \E q \in QueryOutcomes : QueryDatabase(q)
    \/ \E record_id \in {PID1, PID2}, new_status \in {Done, NotStarted} :
          UpdateTaskStatus(record_id, new_status)

SpecAdapter == InitAdapter /\ [][NextAdapter]_vars

(***************************************************************************)
(* Properties of the write path.                                           *)
(***************************************************************************)
SchemaOps == {"_fetch_db_schema", "add_task"}

\* the page-create call of an add_task has been made
CreateCalled == op = "add_task" /\ created # <<>>

\* the metadata read of the call came back with status 200
Read200 == ~args.resp.error /\ args.resp.status_code = 200

\* the characters of s are decimal digits that spell n
RECURSIVE Spells(_, _)
Spells(s, n) ==
    IF s = <<>> THEN n = 0
    ELSE /\ \E k \in 1..Len(DigitChars) :
              DigitChars[k] = s[Len(s)] /\ k - 1 = n % 10
         /\ Spells(SubSeq(s, 1, Len(s) - 1), n \div 10)

\* s is the calendar date d written YYYY-MM-DD and nothing more
IsYMD(s, d) ==
    /\ Len(s) = 10
    /\ s[5] = "-" /\ s[8] = "-"
    /\ Spells(SubSeq(s, 1, 4), d[1])
    /\ Spells(SubSeq(s, 6, 7), d[2])
    /\ Spells(SubSeq(s, 9, 10), d[3])

\* C1: when add_task is called with project_id None, the properties passed
\* to the page-create call have no entry under the schema's relation name.
C1_NoRelationWithoutProject ==
    (CreateCalled /\ args.project_id = None)
        => schema.relation \notin DOMAIN created[1]

\* C2: when add_task is called with date None, the properties passed to the
\* page-create call have no key equal to the schema's date name.
C2_NoDateKeyWithoutDate ==
    (CreateCalled /\ args.date = None)
        => schema.date \notin DOMAIN created[1]

\* C3: when add_task is called with a date, the entry under the schema's
\* date name is a date value whose only part is a start, and the start is
\* the ten characters YYYY-MM-DD of that date.
C3_DateIsYMD ==
    (CreateCalled /\ args.date # None)
        => /\ schema.date \in DOMAIN created[1]
           /\ DOMAIN created[1][schema.date] = {"date"}
           /\ DOMAIN created[1][schema.date].date = {"start"}
           /\ IsYMD(created[1][schema.date].date.start, args.date)

C3_Witness ==
    /\ CreateCalled
    /\ args.date = <<2023, 1, 1>>
    /\ args.project_id = PID1
    /\ schema.date = N_When
    /\ created[1][N_When].date.start = <<"2","0","2","3","-","0","1","-","0","1">>

\* C4: when add_task is called with a project_id, the entry under the
\* schema's relation name is a relation list of exactly one element, whose
\* id is that project_id.
C4_OneRelationWithProject ==
    (CreateCalled /\ args.project_id # None)
        => /\ schema.relation \in DOMAIN created[1]
           /\ DOMAIN created[1][schema.relation] = {"relation"}
           /\ Len(created[1][schema.relation].relation) = 1
           /\ created[1][schema.relation].relation[1].id = args.project_id

\* the first field of kind t in the metadata, as the field's name
FirstOfKind(t) ==
    db[SetMin({i \in 1..Len(db) : db[i].kind = t})].name

HasKind(t) == \E i \in 1..Len(db) : db[i].kind = t

\* the relation fields whose name, in lower case, contains "project"
Hinted ==
    {i \in 1..Len(db) :
        /\ db[i].kind = "relation"
        /\ Contains(Lower(db[i].name), <<"p","r","o","j","e","c","t">>)}

\* C7: after a 200 metadata read of well-shaped metadata the title role is
\* the first title-typed field, the date role the first date-typed field,
\* and the relation role the first relation-typed field whose name contains
\* "project" in any case, or the first relation-typed field when none does.
C7_RolesByType ==
    (op \in SchemaOps /\ Read200 /\ WellShaped(db))
        => /\ HasKind("title") => schema.title = FirstOfKind("title")
           /\ HasKind("date") => schema.date = FirstOfKind("date")
           /\ Hinted # {} => schema.relation = db[SetMin(Hinted)].name
           /\ (HasKind("relation") /\ Hinted = {})
                 => schema.relation = FirstOfKind("relation")

C7_Witness ==
    /\ op = "_fetch_db_schema"
    /\ Read200
    /\ db = << [name |-> N_Owner, kind |-> "relation"],
               [name |-> N_When, kind |-> "date"],
               [name |-> N_MyProjects, kind |-> "relation"] >>
    /\ schema = [title |-> N_Namae, date |-> N_When, relation |-> N_MyProjects]

\* C8: when well-shaped metadata read with status 200 declares no date-typed
\* field, add_task sends no date property, and when it declares no
\* relation-typed field, add_task sends no relation property.
C8_AbsentRoleOmitted ==
    (CreateCalled /\ Read200 /\ WellShaped(db))
        => /\ ~HasKind("date")
                => \A k \in DOMAIN created[1] : "date" \notin DOMAIN created[1][k]
           /\ ~HasKind("relation")
                => \A k \in DOMAIN created[1] :
                      "relation" \notin DOMAIN created[1][k]

SchemaWarnings == {"Could not fetch DB schema", "Error determining DB schema"}

\* C9: when the metadata read fails with a status other than 200 or with a
\* transport error, the schema is the default schema, a warning about the
\* schema has been surfaced, and the call has not raised.
C9_DefaultOnFailedRead ==
    (op \in SchemaOps /\ ~Read200)
        => /\ schema = DefaultSchema
           /\ \E i \in 1..Len(warnings) : warnings[i] \in SchemaWarnings
           /\ ~raised

C9_Witness ==
    /\ op = "_fetch_db_schema"
    /\ args.resp.error
    /\ HasKind("title") /\ HasKind("date")
    /\ schema = DefaultSchema
    /\ warnings = <<"Error determining DB schema">>
    /\ ~raised

\* C10: when the metadata read returns status 200 and metadata that is not
\* well shaped, the schema returned is the default schema.
C10_DefaultOnBadShape ==
    (op \in SchemaOps /\ Read200 /\ ~WellShaped(db))
        => schema = DefaultSchema

(***************************************************************************)
(* Properties of _sanitize_id.                                             *)
(***************************************************************************)
\* C5: _sanitize_id is idempotent: applied to its own result, it returns
\* that result.
C5_Idempotent == op = "_sanitize_id" => _sanitize_id(ret) = ret

(***************************************************************************)
(* Properties of the read path.                                            *)
(***************************************************************************)
\* the ids the i-th record of the query result holds in the field that the
\* schema names as the relation: none when the record has no such field or
\* the field is no relation
RelationIds(i) ==
    IF \E k \in 1..Len(db) : db[k].name = schema.relation /\ db[k].kind = "relation"
    THEN args.query.results[i].relation
    ELSE <<>>

Mapped(id) == args.project_map.given /\ id \in DOMAIN args.project_map.map

\* C6: get_tasks returns one row per record, and the Project of a row is the
\* mapped name when the record's relation field holds an id and the first
\* id is a key of project_map, "Unknown Project" when it holds an id and the
\* first id is no key of project_map (or there is no project_map), and "-"
\* when the field holds no id or is missing.
C6_ProjectDisplay ==
    (op = "get_tasks" /\ ret[1].rows # <<>>)
        => /\ Len(ret[1].rows) = Len(args.query.results)
           /\ \A i \in 1..Len(ret[1].rows) :
                 LET ids == RelationIds(i)
                     shown == ret[1].rows[i].Project
                 IN  /\ (ids # <<>> /\ Mapped(ids[1].id))
                            => shown = args.project_map.map[ids[1].id]
                     /\ (ids # <<>> /\ ~Mapped(ids[1].id))
                            => shown = UnknownProject
                     /\ ids = <<>> => shown = Dash

C6_Witness ==
    /\ op = "get_tasks"
    /\ Len(ret[1].rows) = 2
    /\ args.project_map.given /\ PID1 \in DOMAIN args.project_map.map
    /\ RelationIds(1) = <<[id |-> PID2], [id |-> PID1]>>
    /\ ret[1].rows[1].Project = UnknownProject
    /\ RelationIds(2) = <<[id |-> PID1]>>
    /\ ret[1].rows[2].Project = Alpha

\* the names of the columns of the returned table
ColumnSet == { ret[1].columns[i] : i \in 1..Len(ret[1].columns) }

\* C13: every table get_tasks returns has the column set {Task, Date,
\* Project}, whether the query returns records, returns none, or the query
\* or the parsing fails.
C13_SameColumnSet ==
    op = "get_tasks" => ColumnSet = {"Task", "Date", "Project"}

\* C14: when the query of get_tasks succeeds, the table has one row per
\* record of the query result, in the query's order, whatever the shape of
\* the records' fields; a title that cannot be read gives the empty string.
C14_OneRowPerRecord ==
    (op = "get_tasks" /\ wrapper.has_client /\ args.query.ok)
        => /\ Len(ret[1].rows) = Len(args.query.results)
           /\ \A i \in 1..Len(ret[1].rows) :
                LET task == get_title(PropsGet(db, args.query.results[i],
                                               schema.title))
                IN  ret[1].rows[i].Task = task.value

(***************************************************************************)
(* Properties of the adapter as a whole.                                   *)
(***************************************************************************)
\* the value of key k is in neither the secrets nor the environment
Missing(k) ==
    /\ k \notin DOMAIN config.secrets \/ ~Truthy(config.secrets[k])
    /\ k \notin DOMAIN config.env \/ ~Truthy(config.env[k])

\* C11: when one of NOTION_TOKEN, DATABASE_ID and PROJECT_DB_ID is missing
\* from both the secrets and the environment, the constructor has raised.
C11_MissingValueRaises ==
    (op = "idle" /\ \E k \in ConfigKeys : Missing(k)) => raised

\* the query of a get_tasks, or every query of a get_projects, fails
QueriesFail ==
    \/ ~wrapper.has_client
    \/ op = "get_tasks" /\ ~args.query.ok
    \/ op = "get_projects" /\ \A i \in 1..3 : ~args.out.oks[i]

\* C12: add_task, get_projects and get_tasks do not raise; add_task returns
\* True when the create call was made and succeeded and False otherwise;
\* get_projects returns the empty list when PROJECT_DB_ID is not set or
\* every query fails; get_tasks returns a table with no rows when its query
\* fails.
C12_NoRaiseAcrossBoundary ==
    /\ op \in {"add_task", "get_projects", "get_tasks"} => ~raised
    /\ op = "add_task"
          => /\ ret \in {<<TRUE>>, <<FALSE>>}
             /\ ret = <<TRUE>> <=> (created # <<>> /\ args.create_ok)
    /\ (op = "get_projects" /\ (QueriesFail \/ ~Truthy(wrapper.project_db_id)))
          => ret = <<(<<>>)>>
    /\ (op = "get_tasks" /\ QueriesFail) => ret[1].rows = <<>>

C12_Witness ==
    /\ op = "get_projects"
    /\ wrapper.has_client /\ Truthy(wrapper.project_db_id)
    /\ args.out.pages # <<>>
    /\ \A i \in 1..3 : ~args.out.oks[i]
    /\ Len(calls) = 3
    /\ warnings = <<"Error fetching projects">>
    /\ ret = <<(<<>>)>>
    /\ ~raised

\* C15: the status change the Daily Tasks view makes through
\* update_task_status(record_id, new_status) does not raise and returns
\* True or False.
C15_UpdateReturnsBool ==
    op = "update_task_status" => (~raised /\ ret \in {<<TRUE>>, <<FALSE>>})

\* C16: a _query_database call makes exactly one attempt, on the client's
\* query operation when the client offers it and otherwise by one HTTP
\* POST, and raises exactly when that attempt fails.
C16_OneAttemptOnePath ==
    op = "_query_database"
        => /\ Len(calls) = 1
           /\ calls[1] = IF args.query.has_query THEN "client.databases.query"
                         ELSE "requests.post"
           /\ raised <=> ~args.query.ok

====
